---- MODULE Spec2Model ----
(***************************************************************************)
(* LINA backend: the request gate (token check, trial quota, subscription) *)
(* of the three gated server variants of the repository.                   *)
(*                                                                         *)
(*   variant "trial"     src/server.js lines 1-193      users map with     *)
(*                       {paid, quota, used}, JWT carrying a snapshot      *)
(*   variant "sub"       src/unnamed/part_003           users map with     *)
(*                       {used, subUntil}, mock/Bold subscription, webhook *)
(*   variant "stateless" src/unnamed/part_002 lines 121-327   no users     *)
(*                       map, the quota lives in the signed token          *)
(*                                                                         *)
(* One server process runs one variant; the variable `variant` is fixed by *)
(* Init.  A handler with an `await` is two actions: the part before the    *)
(* await (...Start) and its continuation (...Resume); Node runs each part  *)
(* to completion, so each part is one atomic step.                         *)
(***************************************************************************)
EXTENDS Integers, Sequences, FiniteSets, Bags, TLC

VARIABLES
    variant,   \* which server file is deployed
    clock,     \* Date.now(), in days since the deployment started
    users,     \* the in-memory Map: identity -> record
    held,      \* tokens the clients hold: per identity the first one it was
               \* given and the most recent one
    emails,    \* the e-mail strings the clients of this run type in
    pending,   \* bag of /api/ask handlers suspended at the relay await
    event,     \* what the last step did: the request's class and the response
    boldKey,   \* variant "sub": whether BOLD_TEST_API_KEY is configured
    env,       \* the required settings present in process.env
    phase      \* "boot": the module is being loaded; "serving": app.listen
               \* was called; "exited": process.exit(1) was called

vars == <<variant, clock, users, held, emails, pending, event, boldKey, env, phase>>

---------------------------------------------------------------------------
(* Bounds of the model *)

MaxInFlight == 2     \* simultaneous suspended /api/ask handlers
MaxClock == 90       \* the clock stops advancing past this many days

(* Program constants *)

FREE_QUOTA == 5
SUBSCRIPTION_DAYS == 30
TRIAL_TOKEN_DAYS == 15
SUB_TOKEN_DAYS == 90
STATELESS_TOKEN_DAYS == 30
TRIAL_FREE_COUNT == 5
MAX_MESSAGE == 4000

JWT_SECRET == "server-secret"
OTHER_SECRET == "not-the-server-secret"

\* process.env.JWT_SECRET || 'dev-secret-please-change',
\* process.env.TRIAL_SECRET || "change_me"
DEFAULT_SECRET == "secret-written-in-the-source"

\* The settings the spec calls required: the model provider's API key and
\* the token-signing secret (JWT_SECRET, TRIAL_SECRET).
AllEnv == {"OPENAI_API_KEY", "SECRET"}

\* The secret a variant with a default signs and verifies with.
SecretOrDefault == IF "SECRET" \in env THEN JWT_SECRET ELSE DEFAULT_SECRET

---------------------------------------------------------------------------
(* Strings are sequences of one-character strings. *)

Whitespace == {" ", "\t"}

RECURSIVE trimStart(_)
trimStart(s) ==
    IF s # <<>> /\ Head(s) \in Whitespace THEN trimStart(Tail(s)) ELSE s

RECURSIVE trimEnd(_)
trimEnd(s) ==
    IF s # <<>> /\ s[Len(s)] \in Whitespace
    THEN trimEnd(SubSeq(s, 1, Len(s) - 1))
    ELSE s

trim(s) == trimEnd(trimStart(s))

lowerChar(c) ==
    CASE c = "A" -> "a"
      [] c = "B" -> "b"
      [] c = "C" -> "c"
      [] c = "D" -> "d"
      [] c = "E" -> "e"
      [] c = "F" -> "f"
      [] OTHER -> c

toLowerCase(s) == [i \in 1..Len(s) |-> lowerChar(s[i])]

slice(s, n) == SubSeq(s, 1, IF Len(s) < n THEN Len(s) ELSE n)

normalizeEmail(e) == toLowerCase(trim(e))

NoSpace(s) == \A i \in 1..Len(s) : s[i] \notin Whitespace

\* /^\S+@\S+\.\S+$/
Trial_emailShape(s) ==
    /\ NoSpace(s)
    /\ \E i, j \in 1..Len(s) :
          /\ s[i] = "@" /\ s[j] = "."
          /\ 1 < i /\ i + 1 < j /\ j < Len(s)

\* email.includes("@")
Sub_emailShape(s) == \E i \in 1..Len(s) : s[i] = "@"

\* /^[^\s@]+@[^\s@]+\.[^\s@]+$/
Stateless_emailShape(s) ==
    /\ NoSpace(s)
    /\ Cardinality({i \in 1..Len(s) : s[i] = "@"}) = 1
    /\ \E i, j \in 1..Len(s) :
          /\ s[i] = "@" /\ s[j] = "."
          /\ 1 < i /\ i + 1 < j /\ j < Len(s)

---------------------------------------------------------------------------
(* Request inputs *)

SoloEmails ==
    { <<"a", "@", "b", ".", "c">>,
      <<"A", "@", "B", ".", "c", " ">>,
      <<"a", "b">>,
      <<>> }

PairEmails == { <<"a", "@", "b", ".", "c">>, <<"d", "@", "e", ".", "f">> }

\* E-mails of every shape: well-formed, no dot after the "@", nothing but
\* the "@", no "@", blank.
ShapeEmails ==
    { <<"a", "@", "b", ".", "c">>,
      <<" ", "A", "@", "B", ".", "c">>,
      <<"a", "@", "b">>,
      <<"@">>,
      <<"a", ".", "b">>,
      <<" ">> }

Identities == { <<"a", "@", "b", ".", "c">>, <<"d", "@", "e", ".", "f">> }

Messages == { <<>>, <<" ">>, <<"h", "i">> }

\* What the await of the model call yields: a completion with text, one
\* without, or an exception with err.status 429, 401 or none.
RelayOutcomes == {"text", "empty", "throw429", "throw401", "throw"}

---------------------------------------------------------------------------
(* Signed tokens: jwt.sign / jwt.verify with a symmetric secret.  The MAC  *)
(* binds the secret, the payload and the expiry.                           *)

Mac(secret, body, exp) == <<secret, body, exp>>

jwtSign(body, secret, days) ==
    [body |-> body, exp |-> clock + days, mac |-> Mac(secret, body, clock + days)]

\* A verification that compares the signature and ignores the expiry.
jwtVerifyNoExpiry(tok, secret) == tok.mac = Mac(secret, tok.body, tok.exp)

\* A verification whose signature does not cover the payload.
jwtVerifyAnyBody(tok, secret) ==
    /\ Len(tok.mac) = 3 /\ tok.mac[1] = secret /\ tok.mac[3] = tok.exp
    /\ clock < tok.exp

jwtVerify(tok, secret) ==
    /\ tok.mac = Mac(secret, tok.body, tok.exp)
    /\ clock < tok.exp

NoTok == [body |-> [email |-> <<>>], exp |-> 0, mac |-> <<>>]

NoHeader == [kind |-> "none", tok |-> NoTok]
Bearer(t) == [kind |-> "bearer", tok |-> t]

Tamper(t, e) == [t EXCEPT !.body.email = e]
Forge(t) == [t EXCEPT !.mac = Mac(OTHER_SECRET, t.body, t.exp)]

Range(f) == {f[i] : i \in DOMAIN f}

Held == UNION {Range(held[e]) : e \in DOMAIN held}

\* The client of identity t.body.email receives token t.
Receive(t) ==
    LET e == t.body.email
        h == IF e \in DOMAIN held THEN held[e] ELSE <<>>
        k == IF h = <<>> THEN <<t>>
             ELSE IF t = h[1] THEN h
             ELSE <<h[1], t>>
    IN  IF e \in DOMAIN held THEN [held EXCEPT ![e] = k] ELSE held @@ (e :> k)

\* What a client can put in the Authorization header, with the class of each.
Presented ==
    {<<"none", NoHeader>>, <<"malformed", Bearer(NoTok)>>}
    \cup {<<"held", Bearer(t)>> : t \in Held}
    \cup {<<"forged", Bearer(Forge(held[e][1]))>> : e \in DOMAIN held}
    \cup UNION { {<<"tampered", Bearer(Tamper(held[e][1], x))>> :
                       x \in Identities \ {e}} : e \in DOMAIN held }

AuthClass(p) ==
    IF p[1] = "held"
    THEN IF clock < p[2].tok.exp THEN "valid" ELSE "expired"
    ELSE p[1]

---------------------------------------------------------------------------
(* Events *)

\* What is recorded of a request: whether its Authorization header holds a
\* token the server issued that has not expired and, for such a request,
\* the identity the token was issued to, whether the message is blank and
\* the `remaining` the token carries.
Req(p, msg) ==
    LET ok == AuthClass(p) = "valid" IN
    [authentic |-> ok,
     who |-> IF ok THEN p[2].tok.body.email ELSE <<>>,
     blank |-> ok /\ trim(msg) = <<>>,
     carried |-> IF ok /\ "remaining" \in DOMAIN p[2].tok.body
                 THEN p[2].tok.body.remaining ELSE -1]

\* The same for a request that carries no message.
ReqOf(p) == [Req(p, <<>>) EXCEPT !.blank = FALSE]

NoReq == [authentic |-> TRUE, who |-> <<>>, blank |-> FALSE, carried |-> -1]

\* A response that hands a fresh token to a request it answers 402.
EvTokenOnDenial(op, req, email, status, remaining, subscribed, token) ==
    [op |-> op, req |-> req, email |-> email, status |-> status,
     remaining |-> remaining, subscribed |-> subscribed, detail |-> "none",
     payload |-> [ref |-> <<>>, status |-> "n/a"],
     token |-> IF status = 402
               THEN jwtSign([email |-> email], JWT_SECRET, TRIAL_TOKEN_DAYS)
               ELSE token]

\* payload: for a webhook call, the reference and the status of its body
\* (status "" when the body has no status field).
NoPayload == [ref |-> <<>>, status |-> "n/a"]

\* status 0: no response yet (the handler is suspended at an await).
\* detail: what the response body holds besides fixed texts, codes and the
\* fields above: "none", "payload" (what an upstream service answered) or
\* "exception" (the message of a caught exception).
Ev(op, req, email, status, remaining, subscribed, token) ==
    [op |-> op, req |-> req, email |-> email, status |-> status,
     remaining |-> remaining, subscribed |-> subscribed, token |-> token,
     detail |-> "none", payload |-> NoPayload]

\* The event ev of a webhook call whose body holds ref and status.
WithPayload(ev, ref, status) == [ev EXCEPT !.payload = [ref |-> ref, status |-> status]]

\* The response ev with d in its body.
WithDetail(ev, d) == [ev EXCEPT !.detail = d]

NoEmail == <<>>
NA == -1

Max0(n) == IF n < 0 THEN 0 ELSE n

NoUser == [remaining |-> NA]

Suspend(email, metered, user) ==
    pending (+) SetToBag({[email |-> email, metered |-> metered, user |-> user]})

Room == BagCardinality(pending) < MaxInFlight

---------------------------------------------------------------------------
(* Variant "trial": src/server.js lines 1-193 *)

Trial_signToken(payload) == jwtSign(payload, SecretOrDefault, TRIAL_TOKEN_DAYS)

Trial_verifyToken(tok) == jwtVerify(tok, SecretOrDefault)

\* requireAuth: TRUE when next() is called
Trial_requireAuth(h) == h.kind = "bearer" /\ Trial_verifyToken(h.tok)

Trial_snapshot(u) ==
    [email |-> u.email, paid |-> u.paid, quota |-> u.quota, used |-> u.used]

Trial_newUser(email) ==
    [email |-> email, paid |-> FALSE, quota |-> 5, used |-> 0, updatedAt |-> clock]

\* A quota test that lets one request more through.
Trial_exhaustedOffByOne(u) == ~u.paid /\ u.used > u.quota

\* !u.paid && u.used >= u.quota
Trial_exhausted(u) == ~u.paid /\ u.used >= u.quota

\* The status POST /api/ask answers before its await for identity email
\* (the token passed requireAuth) against the Map U; 0: the relay is called.
Trial_askStatus(U, email, msg) ==
    IF email \notin DOMAIN U THEN 401
    ELSE IF trim(msg) = <<>> THEN 400
    ELSE IF Trial_exhausted(U[email]) THEN 402
    ELSE 0

\* POST /api/auth/register-trial and POST /api/auth/login: the same body
Trial_issue(op, raw) ==
    LET email == normalizeEmail(raw) IN
    IF email = <<>> \/ ~Trial_emailShape(email)
    THEN /\ event' = Ev(op, NoReq, email, 400, NA, FALSE, NoTok)
         /\ UNCHANGED <<users, held>>
    ELSE LET u == IF email \in DOMAIN users THEN users[email]
                  ELSE Trial_newUser(email)
             token == Trial_signToken(Trial_snapshot(u))
         IN  /\ users' = IF email \in DOMAIN users THEN users
                         ELSE users @@ (email :> u)
             /\ held' = Receive(token)
             /\ event' = Ev(op, NoReq, email, 200, Max0(u.quota - u.used),
                            u.paid, token)

Trial_Register(raw) ==
    /\ variant = "trial"
    /\ Trial_issue("register", raw)
    /\ UNCHANGED <<variant, clock, emails, pending, boldKey, env, phase>>

Trial_Login(raw) ==
    /\ variant = "trial"
    /\ Trial_issue("login", raw)
    /\ UNCHANGED <<variant, clock, emails, pending, boldKey, env, phase>>

\* GET /api/me
Trial_Me(p) ==
    /\ variant = "trial"
    /\ LET h == p[2]
           email == h.tok.body.email
       IN  IF ~Trial_requireAuth(h)
           THEN event' = Ev("me", ReqOf(p), NoEmail, 401, NA, FALSE, NoTok)
           ELSE IF email \notin DOMAIN users
           THEN event' = Ev("me", ReqOf(p), email, 404, NA, FALSE, NoTok)
           ELSE event' = Ev("me", ReqOf(p), email, 200,
                            Max0(users[email].quota - users[email].used),
                            users[email].paid, NoTok)
    /\ UNCHANGED <<variant, clock, users, held, emails, pending, boldKey, env, phase>>

\* POST /api/ask up to the await of the relay call
Trial_AskStart(p, msg) ==
    /\ variant = "trial"
    /\ LET h == p[2]
           email == h.tok.body.email
           message == trim(msg)
       IN  IF ~Trial_requireAuth(h)
           THEN /\ event' = Ev("ask", Req(p, msg), NoEmail, 401, NA, FALSE, NoTok)
                /\ UNCHANGED pending
           ELSE IF email \notin DOMAIN users
           THEN /\ event' = Ev("ask", Req(p, msg), email, 401, NA, FALSE, NoTok)
                /\ UNCHANGED pending
           ELSE IF message = <<>>
           THEN /\ event' = Ev("ask", Req(p, msg), email, 400, NA, FALSE, NoTok)
                /\ UNCHANGED pending
           ELSE IF Trial_exhausted(users[email])
           THEN /\ event' = Ev("ask", Req(p, msg), email, 402, NA, FALSE, NoTok)
                /\ UNCHANGED pending
           ELSE /\ Room
                /\ pending' = Suspend(email, ~users[email].paid, NoUser)
                /\ event' = Ev("ask", Req(p, msg), email, 0, NA,
                               users[email].paid, NoTok)
    /\ UNCHANGED <<variant, clock, users, held, emails, boldKey, env, phase>>

\* POST /api/ask from the relay's answer on
Trial_AskResume(r, outcome) ==
    /\ variant = "trial"
    /\ BagIn(r, pending)
    /\ pending' = pending (-) SetToBag({r})
    /\ IF outcome \in {"throw429", "throw401", "throw"}
       THEN /\ event' = Ev("askDone", NoReq, r.email,
                           IF outcome = "throw429" THEN 429 ELSE 500,
                           NA, FALSE, NoTok)
            /\ UNCHANGED <<users, held>>
       ELSE LET u == users[r.email]
                v == IF ~u.paid
                     THEN [u EXCEPT !.used = u.used + 1, !.updatedAt = clock]
                     ELSE u
                token == Trial_signToken(Trial_snapshot(v))
            IN  /\ users' = [users EXCEPT ![r.email] = v]
                /\ held' = Receive(token)
                /\ event' = Ev("askDone", NoReq, r.email, 200,
                               Max0(v.quota - v.used), v.paid, token)
    /\ UNCHANGED <<variant, clock, emails, boldKey, env, phase>>

---------------------------------------------------------------------------
(* Variant "sub": src/unnamed/part_003 *)

addDays(d) == clock + d

\* A lookup that starts a new Map for an unknown e-mail.
ensureUserAlone(email) ==
    IF email \in DOMAIN users THEN users
    ELSE (email :> [used |-> 0, subUntil |-> 0])

\* ensureUser(email): the Map after the call
ensureUser(email) ==
    IF email \in DOMAIN users THEN users
    ELSE users @@ (email :> [used |-> 0, subUntil |-> 0])

isSubscribed(u) == u.subUntil # 0 /\ u.subUntil > clock

remainingFree(u) == Max0(FREE_QUOTA - u.used)

Sub_signToken(email) == jwtSign([email |-> email], JWT_SECRET, SUB_TOKEN_DAYS)

\* auth: TRUE when next() is called
auth(h) == h.kind = "bearer" /\ jwtVerify(h.tok, JWT_SECRET)

\* A quota test that does not look at the subscription.
Sub_exhaustedAlsoSubscribed(u) == remainingFree(u) <= 0

\* !isSubscribed(u) && remainingFree(u) <= 0
Sub_exhausted(u) == ~isSubscribed(u) /\ remainingFree(u) <= 0

\* The status POST /api/ask answers before its await for identity email
\* (the token passed auth) against the Map U; 0: the relay is called.
Sub_askStatus(U, email, msg) ==
    LET u == IF email \in DOMAIN U THEN U[email] ELSE [used |-> 0, subUntil |-> 0]
    IN  IF Sub_exhausted(u) THEN 402
        ELSE IF slice(msg, MAX_MESSAGE) = <<>> THEN 400
        ELSE 0

\* POST /auth/register
Sub_Register(raw) ==
    /\ variant = "sub"
    /\ LET email == toLowerCase(trim(raw)) IN
       IF email = <<>> \/ ~Sub_emailShape(email)
       THEN /\ event' = Ev("register", NoReq, email, 400, NA, FALSE, NoTok)
            /\ UNCHANGED <<users, held>>
       ELSE LET token == Sub_signToken(email) IN
            /\ users' = ensureUser(email)
            /\ held' = Receive(token)
            /\ event' = Ev("register", NoReq, email, 200,
                           remainingFree(users'[email]),
                           isSubscribed(users'[email]), token)
    /\ UNCHANGED <<variant, clock, emails, pending, boldKey, env, phase>>

\* GET /me
Sub_Me(p) ==
    /\ variant = "sub"
    /\ LET h == p[2]
           email == h.tok.body.email
       IN  IF ~auth(h)
           THEN /\ event' = Ev("me", ReqOf(p), NoEmail, 401, NA, FALSE, NoTok)
                /\ UNCHANGED users
           ELSE /\ users' = ensureUser(email)
                /\ event' = Ev("me", ReqOf(p), email, 200,
                               remainingFree(users'[email]),
                               isSubscribed(users'[email]), NoTok)
    /\ UNCHANGED <<variant, clock, held, emails, pending, boldKey, env, phase>>

\* POST /api/ask up to the await of the relay call
Sub_AskStart(p, msg) ==
    /\ variant = "sub"
    /\ LET h == p[2]
           email == h.tok.body.email
           message == slice(msg, MAX_MESSAGE)
       IN  IF ~auth(h)
           THEN /\ event' = Ev("ask", Req(p, msg), NoEmail, 401, NA, FALSE, NoTok)
                /\ UNCHANGED <<users, pending>>
           ELSE LET u == ensureUser(email)[email] IN
                /\ users' = ensureUser(email)
                /\ IF Sub_exhausted(u)
                   THEN /\ event' = Ev("ask", Req(p, msg), email, 402, 0, FALSE, NoTok)
                        /\ UNCHANGED pending
                   ELSE IF message = <<>>
                   THEN /\ event' = Ev("ask", Req(p, msg), email, 400, NA, FALSE, NoTok)
                        /\ UNCHANGED pending
                   ELSE /\ Room
                        /\ pending' = Suspend(email, ~isSubscribed(u), NoUser)
                        /\ event' = Ev("ask", Req(p, msg), email, 0, NA,
                                       isSubscribed(u), NoTok)
    /\ UNCHANGED <<variant, clock, held, emails, boldKey, env, phase>>

\* POST /api/ask from the relay's answer on
Sub_AskResume(r, outcome) ==
    /\ variant = "sub"
    /\ BagIn(r, pending)
    /\ pending' = pending (-) SetToBag({r})
    /\ IF outcome \in {"throw429", "throw401", "throw"}
       THEN /\ event' = Ev("askDone", NoReq, r.email,
                           IF outcome = "throw429" THEN 429 ELSE 500,
                           NA, FALSE, NoTok)
            /\ UNCHANGED users
       ELSE LET u == users[r.email]
                v == IF ~isSubscribed(u) THEN [u EXCEPT !.used = u.used + 1] ELSE u
            IN  /\ users' = [users EXCEPT ![r.email] = v]
                /\ event' = Ev("askDone", NoReq, r.email, 200,
                               remainingFree(v), isSubscribed(v), NoTok)
    /\ UNCHANGED <<variant, clock, held, emails, boldKey, env, phase>>

BoldOutcomes == {"ok", "notok", "exception"}

\* POST /payments/subscribe.  With a Bold key the handler awaits the checkout
\* call; its continuation only writes the response, so it is taken in the
\* same step, `bold` being what the checkout call returned.
Sub_Subscribe(p, bold) ==
    /\ variant = "sub"
    /\ LET h == p[2]
           email == h.tok.body.email
       IN  IF ~auth(h)
           THEN /\ event' = Ev("subscribe", ReqOf(p), NoEmail, 401, NA, FALSE, NoTok)
                /\ UNCHANGED users
           ELSE IF ~boldKey
           THEN /\ users' = [ensureUser(email) EXCEPT
                               ![email].subUntil = addDays(SUBSCRIPTION_DAYS)]
                /\ event' = Ev("subscribe", ReqOf(p), email, 200, NA, TRUE, NoTok)
           ELSE /\ users' = ensureUser(email)
                /\ event' = CASE bold = "ok" ->
                                  Ev("subscribe", ReqOf(p), email, 200, NA, FALSE, NoTok)
                               [] bold = "notok" ->
                                  \* { error: "BOLD_ERROR", detail: data }
                                  WithDetail(Ev("subscribe", ReqOf(p), email, 400,
                                                NA, FALSE, NoTok), "payload")
                               [] OTHER ->
                                  Ev("subscribe", ReqOf(p), email, 500, NA, FALSE, NoTok)
    /\ UNCHANGED <<variant, clock, held, emails, pending, boldKey, env, phase>>

Digits == {"0", "1", "2", "3", "4", "5", "6", "7", "8", "9"}

NoMatch == <<>>

\* ref.match(/^sub_(.+)_(\d+)$/): group 1, or NoMatch
refEmail(ref) ==
    LET n == Len(ref)
        cuts == {i \in 6..(n - 1) :
                    ref[i] = "_" /\ \A k \in (i + 1)..n : ref[k] \in Digits}
    IN  IF n >= 7 /\ SubSeq(ref, 1, 4) = <<"s", "u", "b", "_">> /\ cuts # {}
        THEN SubSeq(ref, 5, (CHOOSE i \in cuts : \A j \in cuts : j <= i) - 1)
        ELSE NoMatch

\* `sub_${email}_${Date.now()}`
reference(email, stamp) == <<"s", "u", "b", "_">> \o email \o <<"_">> \o stamp

toUpperCase(status) ==
    CASE status = "approved" -> "APPROVED"
      [] status = "declined" -> "DECLINED"
      [] OTHER -> status

\* The statuses a webhook body carries; "" is a body with no status field.
WebhookStatuses == {"approved", "DECLINED", ""}

\* POST /webhooks/bold
Sub_Webhook(ref, bodyStatus) ==
    /\ variant = "sub"
    /\ LET email == refEmail(ref)
           status == IF bodyStatus = "" THEN "APPROVED" ELSE bodyStatus
       IN  IF email = NoMatch
           THEN /\ event' = WithPayload(Ev("webhook", NoReq, NoEmail, 200, NA, FALSE,
                                            NoTok), ref, bodyStatus)
                /\ UNCHANGED users
           ELSE IF toUpperCase(status) = "APPROVED"
           THEN /\ users' = [ensureUser(email) EXCEPT
                               ![email] = [used |-> 0,
                                           subUntil |-> addDays(SUBSCRIPTION_DAYS)]]
                /\ event' = WithPayload(Ev("webhook", NoReq, email, 200, NA, TRUE,
                                            NoTok), ref, bodyStatus)
           ELSE /\ users' = ensureUser(email)
                /\ event' = WithPayload(Ev("webhook", NoReq, email, 200, NA, FALSE,
                                            NoTok), ref, bodyStatus)
    /\ UNCHANGED <<variant, clock, held, emails, pending, boldKey, env, phase>>

---------------------------------------------------------------------------
(* Variant "stateless": src/unnamed/part_002 lines 121-327 *)

signTrialToken(payload) == jwtSign(payload, SecretOrDefault, STATELESS_TOKEN_DAYS)

\* verifyToken: TRUE when it returns the payload, FALSE when it returns null
Stateless_verifyToken(tok) == jwtVerify(tok, SecretOrDefault)

\* "u_" + the first 16 hex digits of the e-mail: its first 8 bytes
uidOf(clean) == <<"u", "_">> \o slice(clean, 8)

\* requireTrialOrPaid: TRUE when next() is called
requireTrialOrPaid(h) == h.kind = "bearer" /\ Stateless_verifyToken(h.tok)

\* A trial control that lets every token through.
Stateless_neverExhausted(user) == FALSE

\* user.plan === "trial" && user.remaining <= 0
Stateless_exhausted(user) == user.plan = "trial" /\ user.remaining <= 0

\* POST /api/register
Stateless_Register(raw) ==
    /\ variant = "stateless"
    /\ LET clean == toLowerCase(trim(raw)) IN
       IF clean = <<>> \/ ~Stateless_emailShape(clean)
       THEN /\ event' = Ev("register", NoReq, clean, 400, NA, FALSE, NoTok)
            /\ UNCHANGED held
       ELSE LET token == signTrialToken([uid |-> uidOf(clean), email |-> clean,
                                         remaining |-> TRIAL_FREE_COUNT,
                                         plan |-> "trial"])
            IN  /\ held' = Receive(token)
                /\ event' = Ev("register", NoReq, clean, 200, TRIAL_FREE_COUNT,
                               FALSE, token)
    /\ UNCHANGED <<variant, clock, users, emails, pending, boldKey, env, phase>>

\* GET /api/trial-status
Stateless_TrialStatus(p) ==
    /\ variant = "stateless"
    /\ LET h == p[2] IN
       IF ~requireTrialOrPaid(h)
       THEN event' = Ev("me", ReqOf(p), NoEmail, 401, NA, FALSE, NoTok)
       ELSE event' = Ev("me", ReqOf(p), h.tok.body.email, 200,
                        h.tok.body.remaining, h.tok.body.plan # "trial", NoTok)
    /\ UNCHANGED <<variant, clock, users, held, emails, pending, boldKey, env, phase>>

\* POST /api/ask up to the await of the relay call
Stateless_AskStart(p, msg) ==
    /\ variant = "stateless"
    /\ LET h == p[2]
           user == h.tok.body
       IN  IF ~requireTrialOrPaid(h)
           THEN /\ event' = Ev("ask", Req(p, msg), NoEmail, 401, NA, FALSE, NoTok)
                /\ UNCHANGED pending
           ELSE IF msg = <<>> \/ trim(msg) = <<>>
           THEN /\ event' = Ev("ask", Req(p, msg), user.email, 400, NA, FALSE, NoTok)
                /\ UNCHANGED pending
           ELSE IF Stateless_exhausted(user)
           THEN /\ event' = Ev("ask", Req(p, msg), user.email, 402, NA, FALSE, NoTok)
                /\ UNCHANGED pending
           ELSE /\ Room
                /\ pending' = Suspend(user.email, user.plan = "trial",
                                 IF user.plan = "trial"
                                 THEN [user EXCEPT !.remaining = user.remaining - 1]
                                 ELSE user)
                /\ event' = Ev("ask", Req(p, msg), user.email, 0, NA,
                               user.plan # "trial", NoTok)
    /\ UNCHANGED <<variant, clock, users, held, emails, boldKey, env, phase>>

\* POST /api/ask from the relay's answer on
Stateless_AskResume(r, outcome) ==
    /\ variant = "stateless"
    /\ BagIn(r, pending)
    /\ pending' = pending (-) SetToBag({r})
    /\ IF outcome \in {"throw429", "throw401", "throw"}
       THEN /\ event' = Ev("askDone", NoReq, r.email,
                           CASE outcome = "throw429" -> 429
                             [] outcome = "throw401" -> 401
                             [] OTHER -> 500,
                           NA, FALSE, NoTok)
            /\ UNCHANGED held
       ELSE IF r.user.plan = "trial"
       THEN LET newToken == signTrialToken([uid |-> r.user.uid, email |-> r.user.email,
                                            remaining |-> r.user.remaining,
                                            plan |-> "trial"])
            IN  /\ held' = Receive(newToken)
                /\ event' = Ev("askDone", NoReq, r.email, 200, r.user.remaining,
                               FALSE, newToken)
       ELSE /\ event' = Ev("askDone", NoReq, r.email, 200, NA, TRUE, NoTok)
            /\ UNCHANGED held
    /\ UNCHANGED <<variant, clock, users, emails, boldKey, env, phase>>

---------------------------------------------------------------------------
(* Values of a JSON request body and the system prompt a /api/ask handler  *)
(* selects from its table.  A value is its type and the text String()      *)
(* yields for it, which is also the property key it turns into.            *)

JString(s) == [type |-> "string", text |-> s]
JNumber(s) == [type |-> "number", text |-> s]
\* An array holding the one string s: String(["x"]) is "x".
JArray(s) == [type |-> "object", text |-> s]
undefined == [type |-> "undefined", text |-> <<"u", "n", "d", "e", "f", "i", "n", "e", "d">>]
null == [type |-> "null", text |-> <<"n", "u", "l", "l">>]

\* ToBoolean
truthy(v) ==
    CASE v.type = "string" -> v.text # <<>>
      [] v.type = "number" -> v.text # <<"0">>
      [] v.type = "object" -> TRUE
      [] OTHER -> FALSE

\* a || b
or(a, b) == IF truthy(a) THEN a ELSE b

\* function f(x = d): the default stands in for undefined only
defaultParameter(x, dflt) == IF x = undefined THEN dflt ELSE x

\* The names of the tables' keys and of the topics sent.
general == <<"g", "e", "n", "e", "r", "a", "l">>
cocina == <<"c", "o", "c", "i", "n", "a">>
finanzas == <<"f", "i", "n", "a", "n", "z", "a", "s">>
emprendimiento == <<"e", "m", "p", "r", "e", "n", "d", "i", "m", "i", "e", "n", "t", "o">>
hogar == <<"h", "o", "g", "a", "r">>
salud == <<"s", "a", "l", "u", "d">>
estudio == <<"e", "s", "t", "u", "d", "i", "o">>
default == <<"d", "e", "f", "a", "u", "l", "t">>
otro == <<"o", "t", "r", "o">>
constructor == <<"c", "o", "n", "s", "t", "r", "u", "c", "t", "o", "r">>
salud_mental == <<"s", "a", "l", "u", "d", "-", "m", "e", "n", "t", "a", "l">>
Cocina == <<"C", "o", "c", "i", "n", "a">>
proto == <<"_", "_", "p", "r", "o", "t", "o", "_", "_">>
seven == <<"7">>

\* Among the names every object literal inherits from Object.prototype,
\* those the topics sent hold: map[name] is then a function or an object.
ObjectPrototype == {constructor, proto}

\* The string a table holds under one of its keys.
PromptOf(key) == [kind |-> "prompt", key |-> key]

\* What map[name] yields for a name of Object.prototype: not a string.
Inherited(name) == [kind |-> "inherited", key |-> name]

TypeError == [kind |-> "TypeError", key |-> <<>>]

\* map[k] || map[dflt] on an object literal with the own keys `keys`
select(keys, dflt, k) ==
    IF k \in keys THEN PromptOf(k)
    ELSE IF k \in ObjectPrototype THEN Inherited(k)
    ELSE PromptOf(dflt)

\* src/server.js (196-343): the map of buildSystemPrompt
Relay_map == {cocina, finanzas, estudio, hogar, salud, emprendimiento, default}

\* src/server.js: buildSystemPrompt(topic = "general")
Relay_buildSystemPrompt(topic) ==
    LET t == defaultParameter(topic, JString(general))
        m == toLowerCase(or(t, JString(<<>>)).text)
    IN  select(Relay_map, default, m)

\* src/server.js: const topic = body.topic || body.theme || "general"
Relay_topic(body) == or(or(body.topic, body.theme), JString(general))

\* src/unnamed/part_001 (193-318): the keys of SYSTEM_BY_THEME
SYSTEM_BY_THEME ==
    { general,
      cocina,
      finanzas,
      emprendimiento,
      <<"f", "o", "r", "m", "a", "c", "i", "o", "n", "-", "d", "i", "g", "i", "t", "a", "l">>,
      hogar,
      <<"m", "a", "s", "c", "o", "t", "a", "s">>,
      salud,
      salud_mental,
      <<"f", "a", "m", "i", "l", "i", "a">>,
      <<"a", "p", "r", "e", "n", "d", "i", "z", "a", "j", "e">>,
      <<"i", "d", "i", "o", "m", "a", "s">>,
      <<"e", "m", "p", "l", "e", "o">>,
      <<"m", "e", "c", "a", "n", "i", "c", "a">>,
      <<"c", "o", "n", "s", "t", "r", "u", "c", "c", "i", "o", "n">>,
      <<"a", "g", "r", "i", "c", "u", "l", "t", "u", "r", "a">>,
      <<"i", "a", "-", "h", "e", "r", "r", "a", "m", "i", "e", "n", "t", "a", "s">>,
      <<"c", "o", "m", "u", "n", "i", "c", "a", "c", "i", "o", "n">>,
      <<"c", "r", "e", "a", "t", "i", "v", "i", "d", "a", "d">>,
      <<"c", "u", "l", "t", "u", "r", "a">>,
      <<"e", "s", "p", "i", "r", "i", "t", "u", "a", "l", "i", "d", "a", "d">>,
      <<"v", "i", "a", "j", "e", "s">>,
      <<"t", "r", "a", "m", "i", "t", "e", "s">> }

\* src/unnamed/part_001: const { theme = 'general' } = req.body
Provider_theme(body) == defaultParameter(body.theme, JString(general))

\* src/unnamed/part_001: SYSTEM_BY_THEME[theme] || SYSTEM_BY_THEME.general
Provider_system(theme) == select(SYSTEM_BY_THEME, general, theme.text)

\* src/unnamed/part_002 (1-119): the map of buildSystemPrompt
Topic_map == {cocina, finanzas, estudio, default}

\* src/unnamed/part_002: buildSystemPrompt(topic = "general"); a number or
\* an array has no toLowerCase and the call throws.
Topic_buildSystemPrompt(topic) ==
    LET t == or(defaultParameter(topic, JString(general)), JString(<<>>))
    IN  IF t.type # "string" THEN TypeError
        ELSE select(Topic_map, default, toLowerCase(t.text))

\* src/unnamed/part_002: const theTopic = topic || tema || "general"
Topic_theTopic(body) == or(or(body.topic, body.tema), JString(general))

\* src/unnamed/part_002 (329-428): the keys of SYSTEM_BY_THEME
Fallback_SYSTEM_BY_THEME == {general, cocina, finanzas, emprendimiento}

\* src/unnamed/part_002: const { theme = 'general' } = req.body
Fallback_theme(body) == defaultParameter(body.theme, JString(general))

\* src/unnamed/part_002: SYSTEM_BY_THEME[theme] || SYSTEM_BY_THEME.general
Fallback_system(theme) == select(Fallback_SYSTEM_BY_THEME, general, theme.text)

\* src/unnamed/part_002: localFallback(theme, message) throws when theme is
\* truthy and no string, (theme || '').toLowerCase being no function then.
localFallbackThrows(theme) == or(theme, JString(<<>>)).type # "string"

---------------------------------------------------------------------------
(* Variant "fallback": src/unnamed/part_002 lines 329-428.  No token and   *)
(* no quota: /api/ask relays to the provider and answers 200 in any case.  *)

\* The theme values of the requests sent to this variant.
Themes == {JString(general), JString(cocina), JString(otro), JNumber(seven)}

\* A request whose handler ended with an exception nothing catches: the
\* promise of the async handler is rejected and no response is ever sent.
Orphan(theme) ==
    [email |-> NoEmail, metered |-> FALSE, user |-> NoUser, theme |-> theme,
     rejected |-> TRUE]

Rejected(r) == "rejected" \in DOMAIN r

\* The catch of POST /api/ask: 200 with the local fallback and the error's
\* text, unless localFallback throws in turn.  An unhandled rejection ends
\* the process or only logs a warning, by the version of the runtime.
Fallback_catch(op, theme, others) ==
    IF localFallbackThrows(theme)
    THEN /\ pending' = others (+) SetToBag({Orphan(theme)})
         /\ event' = Ev(op, NoReq, NoEmail, 0, NA, FALSE, NoTok)
         /\ phase' \in {"serving", "exited"}
    ELSE /\ pending' = others
         /\ event' = WithDetail(Ev(op, NoReq, NoEmail, 200, NA, FALSE, NoTok),
                                 "exception")
         /\ UNCHANGED phase

\* POST /api/ask up to the await in callOpenAI.  A missing key throws
\* inside the try before anything is awaited.
Fallback_AskStart(theme, msg) ==
    /\ variant = "fallback"
    /\ phase = "serving"
    /\ IF "OPENAI_API_KEY" \notin env
       THEN /\ localFallbackThrows(theme) => Room
            /\ Fallback_catch("chat", theme, pending)
       ELSE /\ Room
            /\ pending' = pending (+) SetToBag({[email |-> NoEmail, metered |-> FALSE,
                                                 user |-> NoUser, theme |-> theme]})
            /\ event' = Ev("chat", NoReq, NoEmail, 0, NA, FALSE, NoTok)
            /\ UNCHANGED phase
    /\ UNCHANGED <<variant, clock, users, held, emails, boldKey, env>>

\* POST /api/ask from the provider's answer on.  callOpenAI throws an Error
\* holding the provider's text for a non-2xx status, an unparsable body and
\* an empty reply; the catch appends the Error's message to the reply.
Fallback_AskResume(r, outcome) ==
    /\ variant = "fallback"
    /\ phase = "serving"
    /\ BagIn(r, pending)
    /\ ~Rejected(r)
    /\ IF outcome = "text"
       THEN /\ pending' = pending (-) SetToBag({r})
            /\ event' = Ev("chatDone", NoReq, NoEmail, 200, NA, FALSE, NoTok)
            /\ UNCHANGED phase
       ELSE Fallback_catch("chatDone", r.theme, pending (-) SetToBag({r}))
    /\ UNCHANGED <<variant, clock, users, held, emails, boldKey, env>>

---------------------------------------------------------------------------
(* Startup: the top-level code of each file, from the first line to        *)
(* app.listen(PORT) or process.exit(1).                                    *)

Booted(to) ==
    /\ phase = "boot"
    /\ phase' = to
    /\ event' = Ev("start", NoReq, NoEmail, 0, NA, FALSE, NoTok)
    /\ UNCHANGED <<variant, clock, users, held, emails, pending, boldKey, env>>

\* src/server.js: exits without OPENAI_API_KEY; JWT_SECRET has a default
Trial_Start ==
    /\ variant = "trial"
    /\ Booted(IF "OPENAI_API_KEY" \in env THEN "serving" ELSE "exited")

\* src/unnamed/part_003: exits without OPENAI_API_KEY or without JWT_SECRET
Sub_Start ==
    /\ variant = "sub"
    /\ Booted(IF "OPENAI_API_KEY" \in env /\ "SECRET" \in env
              THEN "serving" ELSE "exited")

\* src/unnamed/part_002 (121-327): exits without OPENAI_API_KEY; TRIAL_SECRET
\* has a default
Stateless_Start ==
    /\ variant = "stateless"
    /\ Booted(IF "OPENAI_API_KEY" \in env THEN "serving" ELSE "exited")

\* src/unnamed/part_002 (329-428): no test of the configuration
Fallback_Start ==
    /\ variant = "fallback"
    /\ Booted("serving")

---------------------------------------------------------------------------
(* The environment: time passes; the process restarts and loses its Map.   *)

Tick ==
    /\ clock + SUBSCRIPTION_DAYS <= MaxClock
    /\ clock' = clock + SUBSCRIPTION_DAYS
    /\ event' = Ev("tick", NoReq, NoEmail, 0, NA, FALSE, NoTok)
    /\ UNCHANGED <<variant, users, held, emails, pending, boldKey, env, phase>>

Restart ==
    /\ users # <<>> \/ pending # EmptyBag
    /\ users' = <<>>
    /\ pending' = EmptyBag
    /\ event' = Ev("restart", NoReq, NoEmail, 0, NA, FALSE, NoTok)
    /\ UNCHANGED <<variant, clock, held, emails, boldKey, env, phase>>

---------------------------------------------------------------------------

Init ==
    /\ variant \in {"trial", "sub", "stateless"}
    /\ clock = 0
    /\ users = <<>>
    /\ held = <<>>
    /\ emails = SoloEmails
    /\ pending = EmptyBag
    /\ event = Ev("none", NoReq, NoEmail, 0, NA, FALSE, NoTok)
    /\ boldKey \in (IF variant = "sub" THEN BOOLEAN ELSE {FALSE})
    /\ env = AllEnv
    /\ phase = "serving"

Known == {normalizeEmail(raw) : raw \in emails} \cap Identities

WebhookRefs == {reference(e, <<"1", "7">>) : e \in Known} \cup {<<"x">>}

Next ==
    \/ \E raw \in emails : Trial_Register(raw)
    \/ \E raw \in emails : Trial_Login(raw)
    \/ \E p \in Presented : Trial_Me(p)
    \/ \E p \in Presented, msg \in Messages : Trial_AskStart(p, msg)
    \/ \E r \in BagToSet(pending), o \in RelayOutcomes : Trial_AskResume(r, o)
    \/ \E raw \in emails : Sub_Register(raw)
    \/ \E p \in Presented : Sub_Me(p)
    \/ \E p \in Presented, msg \in Messages : Sub_AskStart(p, msg)
    \/ \E r \in BagToSet(pending), o \in RelayOutcomes : Sub_AskResume(r, o)
    \/ \E p \in Presented, b \in (IF boldKey THEN BoldOutcomes ELSE {"ok"}) :
          Sub_Subscribe(p, b)
    \/ \E ref \in WebhookRefs, st \in WebhookStatuses : Sub_Webhook(ref, st)
    \/ \E raw \in emails : Stateless_Register(raw)
    \/ \E p \in Presented : Stateless_TrialStatus(p)
    \/ \E p \in Presented, msg \in Messages : Stateless_AskStart(p, msg)
    \/ \E r \in BagToSet(pending), o \in RelayOutcomes : Stateless_AskResume(r, o)
    \/ Tick
    \/ Restart

Spec == Init /\ [][Next]_vars

(* Two identities against the variants that keep a users Map, the clock    *)
(* standing still, the process staying up and, in variant "sub", no Bold   *)
(* key (subscriptions start by the mock path or by the webhook).           *)

InitPair ==
    /\ variant \in {"trial", "sub"}
    /\ clock = 0
    /\ users = <<>>
    /\ held = <<>>
    /\ emails = PairEmails
    /\ pending = EmptyBag
    /\ event = Ev("none", NoReq, NoEmail, 0, NA, FALSE, NoTok)
    /\ boldKey = FALSE
    /\ env = AllEnv
    /\ phase = "serving"

NextPair ==
    \/ \E raw \in emails : Trial_Register(raw)
    \/ \E raw \in emails : Trial_Login(raw)
    \/ \E p \in Presented : Trial_Me(p)
    \/ \E p \in Presented, msg \in Messages : Trial_AskStart(p, msg)
    \/ \E r \in BagToSet(pending), o \in RelayOutcomes : Trial_AskResume(r, o)
    \/ \E raw \in emails : Sub_Register(raw)
    \/ \E p \in Presented : Sub_Me(p)
    \/ \E p \in Presented, msg \in Messages : Sub_AskStart(p, msg)
    \/ \E r \in BagToSet(pending), o \in RelayOutcomes : Sub_AskResume(r, o)
    \/ \E p \in Presented, b \in (IF boldKey THEN BoldOutcomes ELSE {"ok"}) :
          Sub_Subscribe(p, b)
    \/ \E ref \in WebhookRefs, st \in WebhookStatuses : Sub_Webhook(ref, st)

SpecPair == InitPair /\ [][NextPair]_vars

(* Registration and login with e-mails of every shape, in each variant.    *)

InitShape ==
    /\ variant \in {"trial", "sub", "stateless"}
    /\ clock = 0
    /\ users = <<>>
    /\ held = <<>>
    /\ emails = ShapeEmails
    /\ pending = EmptyBag
    /\ event = Ev("none", NoReq, NoEmail, 0, NA, FALSE, NoTok)
    /\ boldKey = FALSE
    /\ env = AllEnv
    /\ phase = "serving"

NextShape ==
    \/ \E raw \in emails : Trial_Register(raw)
    \/ \E raw \in emails : Trial_Login(raw)
    \/ \E raw \in emails : Sub_Register(raw)
    \/ \E raw \in emails : Stateless_Register(raw)
    \/ \E p \in Presented : Trial_Me(p)
    \/ \E p \in Presented : Sub_Me(p)
    \/ \E p \in Presented : Stateless_TrialStatus(p)
    \/ Tick
    \/ Restart

SpecShape == InitShape /\ [][NextShape]_vars

(* The calls to upstream services: the relay of the fallback variant and   *)
(* the relay and the Bold checkout of variant "sub".                       *)

InitRelay ==
    /\ variant \in {"fallback", "sub"}
    /\ clock = 0
    /\ users = <<>>
    /\ held = <<>>
    /\ emails = SoloEmails
    /\ pending = EmptyBag
    /\ event = Ev("none", NoReq, NoEmail, 0, NA, FALSE, NoTok)
    /\ boldKey = (variant = "sub")
    /\ env \in (IF variant = "fallback" THEN {AllEnv, {"SECRET"}} ELSE {AllEnv})
    /\ phase = "serving"

NextRelay ==
    \/ \E theme \in Themes, msg \in Messages : Fallback_AskStart(theme, msg)
    \/ \E r \in BagToSet(pending), o \in RelayOutcomes : Fallback_AskResume(r, o)
    \/ \E raw \in emails : Sub_Register(raw)
    \/ \E p \in Presented, msg \in Messages : Sub_AskStart(p, msg)
    \/ \E r \in BagToSet(pending), o \in RelayOutcomes : Sub_AskResume(r, o)
    \/ \E p \in Presented, b \in BoldOutcomes : Sub_Subscribe(p, b)

SpecRelay == InitRelay /\ [][NextRelay]_vars

(* Startup under every configuration, then registrations and status        *)
(* requests once the process serves.                                       *)

InitBoot ==
    /\ variant \in {"trial", "sub", "stateless", "fallback"}
    /\ clock = 0
    /\ users = <<>>
    /\ held = <<>>
    /\ emails = SoloEmails
    /\ pending = EmptyBag
    /\ event = Ev("none", NoReq, NoEmail, 0, NA, FALSE, NoTok)
    /\ boldKey = FALSE
    /\ env \in SUBSET AllEnv
    /\ phase = "boot"

NextBoot ==
    \/ Trial_Start
    \/ Sub_Start
    \/ Stateless_Start
    \/ Fallback_Start
    \/ phase = "serving" /\ \E raw \in emails : Trial_Register(raw)
    \/ phase = "serving" /\ \E raw \in emails : Sub_Register(raw)
    \/ phase = "serving" /\ \E raw \in emails : Stateless_Register(raw)
    \/ phase = "serving" /\ \E p \in Presented : Trial_Me(p)
    \/ phase = "serving" /\ \E p \in Presented : Sub_Me(p)
    \/ phase = "serving" /\ \E p \in Presented : Stateless_TrialStatus(p)
    \/ phase = "serving" /\ \E theme \in Themes, msg \in Messages :
                               Fallback_AskStart(theme, msg)
    \/ phase = "serving" /\ \E r \in BagToSet(pending), o \in RelayOutcomes :
                               Fallback_AskResume(r, o)
    \/ phase = "serving" /\ Tick

SpecBoot == InitBoot /\ [][NextBoot]_vars

(* Chat requests of one identity against the variants whose /api/ask has   *)
(* a try/catch around the relay call, the clock standing still.  The relay *)
(* call of every suspended handler returns or throws in the end, and the   *)
(* event loop then runs the handler's continuation: each resumption is     *)
(* weakly fair.                                                            *)

LiveEmails == { <<"a", "@", "b", ".", "c">> }

\* The handlers that can be suspended at the relay call.
LiveRecords ==
    {[email |-> e, metered |-> m, user |-> NoUser] :
        e \in Identities, m \in BOOLEAN}
    \cup {[email |-> NoEmail, metered |-> FALSE, user |-> NoUser, theme |-> t] :
             t \in Themes}

\* The requests that can be without a response.
OpenRecords == LiveRecords \cup {Orphan(t) : t \in Themes}

InitLive ==
    /\ variant \in {"trial", "sub", "fallback"}
    /\ clock = 0
    /\ users = <<>>
    /\ held = <<>>
    /\ emails = LiveEmails
    /\ pending = EmptyBag
    /\ event = Ev("none", NoReq, NoEmail, 0, NA, FALSE, NoTok)
    /\ boldKey = FALSE
    /\ env \in (IF variant = "fallback" THEN {AllEnv, {"SECRET"}} ELSE {AllEnv})
    /\ phase = "serving"

RelayReturns(r) ==
    \E o \in RelayOutcomes :
        \/ Trial_AskResume(r, o)
        \/ Sub_AskResume(r, o)
        \/ Fallback_AskResume(r, o)

NextLive ==
    \/ \E raw \in emails : Trial_Register(raw)
    \/ \E p \in Presented, msg \in Messages : Trial_AskStart(p, msg)
    \/ \E raw \in emails : Sub_Register(raw)
    \/ \E p \in Presented, msg \in Messages : Sub_AskStart(p, msg)
    \/ \E theme \in Themes, msg \in Messages : Fallback_AskStart(theme, msg)
    \/ \E r \in BagToSet(pending) : RelayReturns(r)

SpecLive ==
    /\ InitLive
    /\ [][NextLive]_vars
    /\ \A r \in LiveRecords : WF_vars(RelayReturns(r))

(* The selection of the system prompt alone, in the four files that keep   *)
(* a table of prompts, for request bodies of every kind.                   *)

TopicValues ==
    {undefined, null, JString(<<>>), JString(general), JString(cocina),
     JString(Cocina), JString(estudio), JString(salud_mental), JString(default),
     JString(otro), JString(constructor), JString(proto), JNumber(seven),
     JArray(cocina)}

Bodies ==
    [topic : TopicValues, theme : TopicValues, tema : {undefined, JString(cocina)}]

InitPrompt ==
    /\ variant \in {"relay", "provider", "topic", "fallback"}
    /\ clock = 0
    /\ users = <<>>
    /\ held = <<>>
    /\ emails = {}
    /\ pending = EmptyBag
    /\ event \in [op : {"body"}, body : Bodies]
    /\ boldKey = FALSE
    /\ env = AllEnv
    /\ phase = "serving"

\* The request body's theme or topic as the handler reads it, and the
\* system message the handler builds for it.
Selected(topic, prompt) ==
    /\ event.op = "body"
    /\ event' = [op |-> "prompt", body |-> event.body, topic |-> topic,
                 prompt |-> prompt]
    /\ UNCHANGED <<variant, clock, users, held, emails, pending, boldKey, env, phase>>

Relay_Select ==
    /\ variant = "relay"
    /\ Selected(Relay_topic(event.body),
                Relay_buildSystemPrompt(Relay_topic(event.body)))

Provider_Select ==
    /\ variant = "provider"
    /\ Selected(Provider_theme(event.body),
                Provider_system(Provider_theme(event.body)))

Topic_Select ==
    /\ variant = "topic"
    /\ Selected(Topic_theTopic(event.body),
                Topic_buildSystemPrompt(Topic_theTopic(event.body)))

Fallback_Select ==
    /\ variant = "fallback"
    /\ Selected(Fallback_theme(event.body),
                Fallback_system(Fallback_theme(event.body)))

NextPrompt ==
    \/ Relay_Select
    \/ Provider_Select
    \/ Topic_Select
    \/ Fallback_Select

SpecPrompt == InitPrompt /\ [][NextPrompt]_vars

---------------------------------------------------------------------------
(* Notions the properties below share *)

Records == DOMAIN users

\* The subscription of record u is active now.
Active(u) ==
    IF variant = "trial" THEN u.paid ELSE u.subUntil > clock

\* Suspended /api/ask handlers of identity e that were admitted as metered.
MeteredInFlight(e) ==
    LET rs == {r \in BagToSet(pending) : r.email = e /\ r.metered}
        RECURSIVE Sum(_)
        Sum(S) == IF S = {} THEN 0
                  ELSE LET r == CHOOSE x \in S : TRUE
                       IN  CopiesIn(r, pending) + Sum(S \ {r})
    IN  Sum(rs)

\* The suspended handler a step resumes, and the one a step suspends.
Resumed == CHOOSE r \in BagToSet(pending) : pending = pending' (+) SetToBag({r})
Suspended == CHOOSE r \in BagToSet(pending') : pending' = pending (+) SetToBag({r})

\* The free questions record u has left.
RemainingOf(u) ==
    IF variant = "trial" THEN Max0(u.quota - u.used) ELSE Max0(FREE_QUOTA - u.used)

\* The token check of the deployed variant.
Gate(h) ==
    CASE variant = "trial" -> Trial_requireAuth(h)
      [] variant = "sub" -> auth(h)
      [] OTHER -> requireTrialOrPaid(h)

Protected == {"ask", "me", "subscribe"}

---------------------------------------------------------------------------
(* C1: for one unsubscribed identity, the requests admitted as metered     *)
(* never number more than FREE_QUOTA, whatever the interleaving of the     *)
(* requests' admission checks, relay calls and counter updates.  Every     *)
(* unit of `used` and every suspended metered handler is one admitted      *)
(* request.                                                                *)
C1_AdmittedWithinQuota ==
    \A e \in Records :
        ~Active(users[e]) => users[e].used + MeteredInFlight(e) <= FREE_QUOTA

(* C2: in every reachable state every identity that is not subscribed has  *)
(* usedCount <= freeQuota.                                                 *)
C2_UsedWithinQuota ==
    \A e \in Records : ~Active(users[e]) => users[e].used <= FREE_QUOTA


(* C3: served one request at a time, an unsubscribed identity is charged   *)
(* one question by each successful metered chat request, and once          *)
(* FREE_QUOTA are used up a well-formed chat request is answered 402 and   *)
(* changes nothing (no record, no suspended handler, no token), however    *)
(* often it is repeated.  In the stateless variant the count is the        *)
(* `remaining` the token carries: each admission lowers it by one and a    *)
(* token with none left is answered 402.                                   *)
C3_Step ==
    LET e == event'.req.who IN
    /\ ( /\ event'.op = "ask" /\ event'.req.authentic /\ ~event'.req.blank
         /\ \/ /\ variant # "stateless"
               /\ e \in Records
               /\ ~Active(users[e])
               /\ users[e].used >= FREE_QUOTA
            \/ /\ variant = "stateless"
               /\ event'.req.carried <= 0 )
       => /\ event'.status = 402
          /\ UNCHANGED <<users, pending, held>>
    /\ ( /\ event'.op = "askDone" /\ event'.status = 200
         /\ variant # "stateless"
         /\ ~Active(users[event'.email]) )
       => users'[event'.email].used = users[event'.email].used + 1
    /\ ( event'.op = "ask" /\ event'.status = 0 /\ variant = "stateless" )
       => /\ event'.req.carried >= 1
          /\ Suspended.email = e
          /\ Suspended.user.remaining = event'.req.carried - 1
    /\ ( event'.op = "askDone" /\ event'.status = 200 /\ variant = "stateless" )
       => event'.token.body.remaining = Resumed.user.remaining

Admits(t) ==
    LET e == t.body.email IN
    CASE variant = "trial" -> e \in Records /\ ~Trial_exhausted(users[e])
      [] variant = "sub" -> ~Sub_exhausted(ensureUser(e)[e])
      [] OTHER -> ~Stateless_exhausted(t.body)

C4_DecisionFromLedger ==
    \A t1, t2 \in Held :
        ( /\ t1.body.email = t2.body.email
          /\ Gate(Bearer(t1)) /\ Gate(Bearer(t2)) )
        => Admits(t1) = Admits(t2)

(* C5: registering or logging in with an e-mail whose normalized form is   *)
(* already known changes no record and reports the remaining the identity  *)
(* has now, not a full quota.  The stateless variant keeps no record: an   *)
(* identity is known there once a token was issued to it, and what it has  *)
(* left is what its most recent token carries.                             *)
KnownBefore(e) ==
    IF variant = "stateless" THEN e \in DOMAIN held ELSE e \in Records

CurrentRemaining(e) ==
    IF variant = "stateless"
    THEN held[e][Len(held[e])].body.remaining
    ELSE RemainingOf(users[e])

C5_RegistrationIdempotent ==
    [][ ( /\ event'.op \in {"register", "login"}
          /\ event'.status = 200
          /\ KnownBefore(event'.email) )
        => /\ users' = users
           /\ event'.remaining = CurrentRemaining(event'.email) ]_vars

(* C6: a chat request with a valid token whose identity has no record is   *)
(* answered 401, or the record it is given has no free question left.      *)
C6_UnknownIdentityGetsNoQuota ==
    [][ ( /\ event'.op = "ask"
          /\ event'.req.authentic
          /\ variant # "stateless"
          /\ event'.req.who \notin Records )
        => \/ event'.status = 401
           \/ /\ event'.req.who \in DOMAIN users'
              /\ RemainingOf(users'[event'.req.who]) = 0 ]_vars

(* C7: a protected request whose token is missing, malformed, signed with  *)
(* another secret, altered after signing or expired is answered 401 and    *)
(* leaves the Ledger, the suspended handlers and the tokens as they were.  *)
C7_Step ==
    ( event'.op \in Protected /\ ~event'.req.authentic )
    => /\ event'.status = 401
       /\ UNCHANGED <<users, pending, held>>

C7_UnauthenticatedIsRejected == [][C7_Step]_vars

C7_Witness ==
    /\ event.op = "ask" /\ event.status = 401 /\ ~event.req.authentic
    /\ users # <<>>
    /\ \E p \in Presented : AuthClass(p) = "expired"

(* C8: a request with a valid token reads, charges and reports the record  *)
(* of the identity the token was issued to and no other record; a token    *)
(* whose payload was altered after signing is answered 401.                *)
OthersUntouched(e) ==
    /\ DOMAIN users' \ {e} = Records \ {e}
    /\ \A b \in Records \ {e} : users'[b] = users[b]

C8_Step ==
    /\ ( event'.op \in Protected /\ ~event'.req.authentic )
       => event'.status = 401 /\ users' = users /\ pending' = pending
    /\ ( event'.op \in Protected /\ event'.req.authentic )
       => /\ OthersUntouched(event'.req.who)
          /\ event'.email = event'.req.who
          /\ ( event'.status = 0 => Suspended.email = event'.req.who )
          /\ ( event'.status = 200 /\ event'.remaining # NA )
             => event'.remaining = RemainingOf(users'[event'.req.who])
    /\ event'.op = "askDone"
       => /\ OthersUntouched(Resumed.email)
          /\ event'.email = Resumed.email
          /\ event'.status = 200
             => event'.remaining = RemainingOf(users'[Resumed.email])

C8_TokenBindsIdentity == [][C8_Step]_vars

C8_Witness ==
    \E a, b \in Records :
        /\ a # b
        /\ event.op = "askDone" /\ event.status = 200 /\ event.email = a
        /\ users[a].used # users[b].used
        /\ pending # EmptyBag

(* C9: once a subscription is activated (mock subscribe or approved        *)
(* webhook) it is active, and while it is active a well-formed chat        *)
(* request of that identity is admitted as unmetered, never answered 402,  *)
(* and its completion leaves usedCount as it was, whatever usedCount is.   *)
C9_Step ==
    variant = "sub" =>
    /\ ( \/ event'.op = "subscribe" /\ event'.status = 200 /\ ~boldKey
         \/ event'.op = "webhook" /\ event'.subscribed )
       => users'[event'.email].subUntil > clock
    /\ ( /\ event'.op = "ask" /\ event'.req.authentic /\ ~event'.req.blank
         /\ event'.req.who \in Records
         /\ users[event'.req.who].subUntil > clock )
       => /\ event'.status = 0
          /\ ~Suspended.metered
          /\ users' = users
    /\ ( /\ event'.op = "askDone" /\ event'.status = 200
         /\ users[event'.email].subUntil > clock )
       => /\ users'[event'.email].used = users[event'.email].used
          /\ event'.subscribed

C9_SubscribedIsUnmetered == [][C9_Step]_vars

C9_Witness ==
    /\ variant = "sub"
    /\ event.op = "askDone" /\ event.status = 200 /\ event.subscribed
    /\ users[event.email].used >= FREE_QUOTA

(* C10: every chat request admitted as metered leaves usedCount one higher *)
(* when its handler ends, also when the relay call throws.                 *)
C10_ChargedAtAdmission ==
    [][ ( event'.op = "askDone" /\ variant # "stateless" /\ Resumed.metered )
        => users'[event'.email].used = users[event'.email].used + 1 ]_vars

(* C11: a chat request answered 400, 401 or 402 gets no token and gives    *)
(* the clients no new token; a response to a chat request carries a token  *)
(* only when it is the 200 answer of a request that was admitted.          *)
C11_Step ==
    /\ ( event'.op = "ask" /\ event'.status \in {400, 401, 402} )
       => /\ event'.token = NoTok
          /\ held' = held
    /\ ( event'.op \in {"ask", "askDone"} /\ event'.token # NoTok )
       => /\ event'.op = "askDone"
          /\ event'.status = 200
          /\ BagIn(Resumed, pending)

C11_NoTokenOnDenial == [][C11_Step]_vars

C11_Witness ==
    /\ event.op = "ask" /\ event.status = 402
    /\ \E e \in DOMAIN held : Len(held[e]) = 2

(* C12: a registration or login whose e-mail, trimmed and lower-cased, is  *)
(* not of the shape local-part "@" domain-with-dot is answered 400, gets   *)
(* no token and creates or changes no record.                              *)
LocalAtDomainWithDot(s) ==
    \E i \in 2..Len(s) :
        /\ s[i] = "@"
        /\ \A k \in 1..Len(s) : s[k] = "@" => k = i
        /\ \A k \in 1..Len(s) : s[k] \notin Whitespace
        /\ \E j \in (i + 2)..(Len(s) - 1) : s[j] = "."

C12_MalformedEmailRejected ==
    [][ ( /\ event'.op \in {"register", "login"}
          /\ ~LocalAtDomainWithDot(event'.email) )
        => /\ event'.status = 400
           /\ event'.token = NoTok
           /\ users' = users
           /\ held' = held ]_vars

(* C13: a chat request with a valid token of a known identity whose        *)
(* message is missing or empty after trimming is answered 400, is not      *)
(* passed to the relay and leaves every record as it was.                  *)
C13_BlankMessageRejected ==
    [][ ( /\ event'.op = "ask"
          /\ event'.req.authentic /\ event'.req.blank
          /\ (variant = "stateless" \/ event'.req.who \in Records) )
        => /\ event'.status = 400
           /\ pending' = pending
           /\ users' = users ]_vars

(* C14: the response to the first registration of an identity (no token    *)
(* was issued to it before) reports remaining = FREE_QUOTA and not         *)
(* subscribed, and its record then has used = 0 and no subscription.       *)
C14_FirstRegistrationIsFresh ==
    [][ ( /\ event'.op \in {"register", "login"}
          /\ event'.status = 200
          /\ event'.email \notin DOMAIN held )
        => /\ event'.remaining = FREE_QUOTA
           /\ ~event'.subscribed
           /\ variant = "trial"
              => /\ users'[event'.email].used = 0
                 /\ ~users'[event'.email].paid
           /\ variant = "sub"
              => /\ users'[event'.email].used = 0
                 /\ users'[event'.email].subUntil = 0 ]_vars

(* C15: no response body holds what an upstream service answered or the    *)
(* message of a caught exception.                                          *)
C15_NoInternalDetail == event.detail = "none"

(* C16: the process serves only when the model provider's API key and the  *)
(* token-signing secret are both configured.                               *)
C16_ServesOnlyConfigured == phase = "serving" => env = AllEnv

(* C17: the step that invokes the relay for a request admitted as metered  *)
(* has already raised the identity's used by one.                          *)
C17_ConsumedBeforeRelay ==
    [][ ( /\ variant \in {"trial", "sub"}
          /\ event'.op = "ask" /\ event'.status = 0
          /\ Suspended.metered )
        => users'[event'.email].used = users[event'.email].used + 1 ]_vars

(* C18: a chat request that completes raises used by one when it was      *)
(* admitted as metered (unsubscribed at admission) and leaves it unchanged *)
(* when it was admitted as unmetered, whatever happened to the             *)
(* subscription while the relay call was in flight.                        *)
C18_ChargeFollowsAdmission ==
    [][ ( /\ variant \in {"trial", "sub"}
          /\ event'.op = "askDone" /\ event'.status = 200 )
        => users'[event'.email].used =
              users[event'.email].used + (IF Resumed.metered THEN 1 ELSE 0) ]_vars

(* C19: a step that activates the subscription of an identity with a       *)
(* record (mock subscribe, approved webhook) leaves that record's used     *)
(* unchanged and changes no other record.                                  *)
C19_ActivationKeepsUsed ==
    [][ ( /\ variant = "sub"
          /\ \/ event'.op = "subscribe" /\ event'.status = 200 /\ ~boldKey
             \/ event'.op = "webhook" /\ event'.subscribed
          /\ event'.email \in Records )
        => /\ users'[event'.email].used = users[event'.email].used
           /\ OthersUntouched(event'.email) ]_vars

(* C20: a subscription that has run out counts as none.  A well-formed     *)
(* chat request of an identity whose subUntil is not in the future is      *)
(* answered 402 when used >= FREE_QUOTA and is otherwise admitted as       *)
(* metered; and used is what it was before the subscription, no step that  *)
(* leaves an identity subscribed having changed it.                        *)
C20_LapsedIsMetered ==
    LET e == event'.req.who IN
    ( /\ variant = "sub"
      /\ event'.op = "ask" /\ event'.req.authentic /\ ~event'.req.blank
      /\ e \in Records
      /\ users[e].subUntil <= clock )
    => IF users[e].used >= FREE_QUOTA
       THEN event'.status = 402 /\ users' = users /\ pending' = pending
       ELSE event'.status = 0 /\ Suspended.metered

C20_UsedKeptWhileSubscribed ==
    variant = "sub" =>
    \A e \in Records \cap DOMAIN users' :
        users'[e].subUntil > clock' => users'[e].used = users[e].used

C20_ExpiredIsNoSubscription ==
    [][C20_LapsedIsMetered /\ C20_UsedKeptWhileSubscribed]_vars

(* C21: a webhook call changes the Ledger only when its reference parses   *)
(* to an identity and its body carries an approved status; a call with     *)
(* another status, with no status field, or with a reference that does not *)
(* parse leaves every record as it was and creates none.                   *)
C21_OnlyApprovedChanges ==
    [][ ( /\ event'.op = "webhook"
          /\ ~ ( /\ refEmail(event'.payload.ref) # NoMatch
                 /\ event'.payload.status \in {"APPROVED", "approved"} ) )
        => users' = users ]_vars

(* C22: as long as no token has been issued to an identity, so that no     *)
(* request can carry a valid token of it, no step creates a record for it  *)
(* or makes it subscribed.                                                 *)
C22_NoTokenNoSubscription ==
    [][ \A e \in Identities :
          ( e \notin DOMAIN held /\ e \notin DOMAIN held' )
          => /\ e \in DOMAIN users' => e \in Records
             /\ ( e \in DOMAIN users' /\ variant = "sub" )
                => users'[e].subUntil <= clock' ]_vars

(* C23: a chat request answered 400, 401 or 402 has started no relay call, *)
(* and a step starts a relay call only for a chat request whose token is   *)
(* valid and whose identity passes the admission check in the state the    *)
(* request arrives in.                                                     *)
PassesAdmission(e, carried) ==
    CASE variant = "trial" -> e \in Records /\ (users[e].paid \/ users[e].used < users[e].quota)
      [] variant = "sub" -> e \in Records => ( \/ users[e].subUntil > clock
                                               \/ users[e].used < FREE_QUOTA )
      [] OTHER -> carried >= 1

C23_Step ==
    /\ ( event'.op = "ask" /\ event'.status \in {400, 401, 402} )
       => pending' = pending
    /\ BagCardinality(pending') > BagCardinality(pending)
       => /\ event'.op = "ask" /\ event'.status = 0
          /\ event'.req.authentic
          /\ PassesAdmission(event'.req.who, event'.req.carried)
          /\ BagCardinality(pending') = BagCardinality(pending) + 1

OtherRecordValues ==
    IF variant = "trial"
    THEN {[email |-> <<>>, paid |-> pd, quota |-> 5, used |-> n, updatedAt |-> 0] :
             pd \in BOOLEAN, n \in {0, FREE_QUOTA}}
    ELSE {[used |-> n, subUntil |-> t] :
             n \in {0, FREE_QUOTA}, t \in {0, clock + SUBSCRIPTION_DAYS}}

\* The Maps that hold for identity a what users holds and anything for the
\* other identities.
Variations(a) ==
    LET own == IF a \in Records THEN (a :> users[a]) ELSE <<>> IN
    {own} \cup { own @@ (b :> v) : b \in Identities \ {a}, v \in OtherRecordValues }

askStatuses(U, a, blank) ==
    { IF variant = "trial" THEN Trial_askStatus(U, a, m) ELSE Sub_askStatus(U, a, m) :
         m \in {m \in Messages : (trim(m) = <<>>) = blank} }

C24_Step ==
    /\ event'.op \in {"register", "login", "ask", "askDone", "me", "subscribe", "webhook"}
       => IF event'.email = NoEmail
          THEN users' = users
          ELSE OthersUntouched(event'.email)
    /\ ( event'.op = "ask" /\ event'.req.authentic )
       => LET a == event'.req.who
              blank == event'.req.blank
          IN  /\ event'.status \in askStatuses(users, a, blank)
              /\ \A U \in Variations(a) :
                    askStatuses(U, a, blank) = askStatuses(users, a, blank)

C24_IdentitiesIndependent == [][C24_Step]_vars

C24_Witness ==
    \E a, b \in Records :
        /\ a # b
        /\ event.op = "ask" /\ event.status = 0 /\ event.email = a
        /\ users[b].used >= FREE_QUOTA
        /\ users[a].used < FREE_QUOTA

(* C25: every chat request gets exactly one response once its relay call   *)
(* has returned or thrown: a resumed handler answers (its step carries a   *)
(* status and takes one request off the unanswered ones), and a request    *)
(* without a response does get one.                                        *)
DoneOps == {"askDone", "chatDone"}

Answered(r) ==
    /\ event.op \in DoneOps
    /\ event.status # 0
    /\ event.email = r.email

C25_Step ==
    event'.op \in DoneOps
    => /\ event'.status # 0
       /\ BagCardinality(pending') = BagCardinality(pending) - 1

C25_EveryRequestAnswered ==
    /\ [][C25_Step]_vars
    /\ \A r \in OpenRecords : BagIn(r, pending) ~> Answered(r)

\* The same as long as no handler has ended with an uncaught exception.
C25_AnsweredUnlessRejected ==
    \A r \in LiveRecords :
        BagIn(r, pending)
        ~> ( Answered(r) \/ \E t \in Themes : BagIn(Orphan(t), pending) )

\* The same for the variants with a token check alone.
C25_GatedAnswered ==
    /\ [][ (variant \in {"trial", "sub"}) => C25_Step ]_vars
    /\ \A r \in LiveRecords :
          ( variant \in {"trial", "sub"} /\ BagIn(r, pending) ) ~> Answered(r)

(* C26: the system prompt a handler selects is the prompt its table holds  *)
(* under the request's theme or topic when that value is one of the        *)
(* table's keys, and the table's general/default prompt for every other    *)
(* value.                                                                  *)
PromptTable ==
    CASE variant = "relay" -> [keys |-> Relay_map, dflt |-> default]
      [] variant = "provider" -> [keys |-> SYSTEM_BY_THEME, dflt |-> general]
      [] variant = "topic" -> [keys |-> Topic_map, dflt |-> default]
      [] OTHER -> [keys |-> Fallback_SYSTEM_BY_THEME, dflt |-> general]

RelayCalled == event.op = "prompt" /\ event.prompt.kind # "TypeError"

C26_PromptByKey ==
    RelayCalled
    => event.prompt = IF /\ event.topic.type = "string"
                         /\ event.topic.text \in PromptTable.keys
                      THEN PromptOf(event.topic.text)
                      ELSE PromptOf(PromptTable.dflt)

\* The same for the strings in lower case that name nothing an object
\* inherits.
C26_PlainTopics ==
    ( /\ RelayCalled
      /\ event.topic.type = "string"
      /\ toLowerCase(event.topic.text) = event.topic.text
      /\ event.topic.text \notin ObjectPrototype )
    => event.prompt = IF event.topic.text \in PromptTable.keys
                      THEN PromptOf(event.topic.text)
                      ELSE PromptOf(PromptTable.dflt)

\* No selection yields anything but a string for a topic that names no
\* inherited property.
C26_InheritedOnly ==
    ( RelayCalled /\ event.prompt.kind = "inherited" )
    => event.topic.text \in ObjectPrototype

\* The claim with the keys compared in lower case: still refuted, by the
\* topics that name an inherited property.
C26_KeysIgnoringCase ==
    ( RelayCalled /\ event.topic.type = "string" )
    => event.prompt \in {PromptOf(event.topic.text),
                         PromptOf(toLowerCase(event.topic.text)),
                         PromptOf(PromptTable.dflt)}

====
